---- MODULE Spec2Model ----
(***************************************************************************)
(* Document detection engine of the Scanner App (scannerUtils.ts):        *)
(* corner utilities, confidence scoring, IOU-based duplicate suppression  *)
(* and the scanDocument pipeline that orchestrates them.                  *)
(***************************************************************************)
EXTENDS Integers, Sequences, FiniteSets

(* ------------------------------ bounds -------------------------------- *)

\* Largest grid coordinate of a point handed to the corner utilities.
MaxCoord == 2

\* Longest point list handed to the corner utilities.
MaxPts == 5

\* Largest bounding-rectangle width and height handed to the confidence scorer.
MaxRectSide == 6

\* Largest contour area handed to the confidence scorer, in half pixels.
MaxArea2 == 20

\* Longest list of documents handed to the duplicate filter.
MaxDocs == 3

\* Most contours cv.findContours reports in one scan.
MaxContours == 2

\* Side of a grid cell of the working image, in pixels.
Cell == 100

\* Most sampled edge pixels autoRotateImage counts in either band.
MaxEdges == 2

\* Two scans and, for the id of a document, two readings of the clock and two
\* random suffixes.
MaxScans == 2
MaxClock == 1
MaxRandom == 1

VARIABLES
    fn,          \* utility call under test: "none" before the call, then the callee's name
    arg,         \* the argument of that call
    ret,         \* its outcome: a returned value or a thrown error
    pc,          \* where scanDocument is: "idle", "loading", "contours", "resolved", "rejected"
    scale,       \* the downscaling factor, as the fraction num / den
    useRotated,  \* autoRotateImage returned a rotated copy
    nContours,   \* contours.size()
    contourIdx,  \* the contour loop's index i
    foundDocs,   \* the documents pushed so far
    trail,       \* what became of each contour processed so far
    stages,      \* the stages of the scan completed so far, in order
    small,       \* the size of the downscaled working image
    result,      \* the list the promise resolved with
    cv,          \* the OpenCV object passed in: "missing", "noMat" or "ready"
    src,         \* the size of the image read by cv.imread
    rotation,    \* what autoRotateImage did: "none" yet, "kept", "rotated", "failed"
    error,       \* the error the promise rejected with, "none" if it has not
    live,        \* the OpenCV buffers allocated and not deleted
    matsToDelete, \* the buffers recorded for the cleanup
    savePc,         \* where saveScanToFirestore is: "idle", "uploading", "resolved", "rejected"
    pendingUploads, \* the uploads started and not yet settled: "original", "processed"
    storage,        \* the objects written to Cloud Storage
    scans,          \* the documents of the Firestore collection "scans"
    imageSrc,       \* the scanner's image: 0 (null) or the file it was read from
    scannedDocs,    \* the documents the scanner displays
    isProcessing,   \* the scanner's flag of a scan in progress
    reading,        \* the files processFile is reading
    scanning,       \* the images of the scans started and not yet settled
    saved           \* what handleSave handed to saveScanToFirestore

utilVars == <<fn, arg, ret>>

scanVars == <<pc, scale, useRotated, small, nContours, contourIdx, foundDocs, trail, stages,
              result, cv, src, rotation, error, live, matsToDelete>>

saveVars == <<savePc, pendingUploads, storage, scans>>

uiVars == <<imageSrc, scannedDocs, isProcessing, reading, scanning, saved>>

vars == <<fn, arg, ret, pc, scale, useRotated, small, nContours, contourIdx, foundDocs,
          trail, stages, result, cv, src, rotation, error, live, matsToDelete,
          savePc, pendingUploads, storage, scans,
          imageSrc, scannedDocs, isProcessing, reading, scanning, saved>>

\* saveScanToFirestore has not been called, storage and database are empty.
SaveIdle ==
    /\ savePc = "idle"
    /\ pendingUploads = {}
    /\ storage = {}
    /\ scans = {}

\* The scanner component as it is mounted: no image, no documents.
UiIdle ==
    /\ imageSrc = 0
    /\ scannedDocs = <<>>
    /\ isProcessing = FALSE
    /\ reading = {}
    /\ scanning = {}
    /\ saved = {}

\* scanDocument has not been called.
ScanNotStarted ==
    /\ pc = "idle"
    /\ scale = [num |-> 1, den |-> 1]
    /\ useRotated = FALSE
    /\ small = [cols |-> 0, rows |-> 0]
    /\ nContours = 0
    /\ contourIdx = 0
    /\ foundDocs = <<>>
    /\ trail = <<>>
    /\ stages = <<>>
    /\ result = <<>>
    /\ src = [cols |-> 0, rows |-> 0]
    /\ rotation = "none"
    /\ error = "none"
    /\ live = {}
    /\ matsToDelete = {}

\* No scan is running and OpenCV is loaded.
ScanIdle ==
    /\ ScanNotStarted
    /\ cv = "ready"

(* --------------------------- generic helpers -------------------------- *)

\* Math.min(...xs) over a non-empty set of integers.
MinOf(S) == CHOOSE m \in S : \A n \in S : m <= n

\* Math.max(...xs) over a non-empty set of integers.
MaxOf(S) == CHOOSE m \in S : \A n \in S : m >= n

\* The values of a sequence.
Range(s) == { s[i] : i \in DOMAIN s }

\* Array.prototype.indexOf: the first (1-based) index holding v.
IndexOf(s, v) == MinOf({ i \in DOMAIN s : s[i] = v })

\* A Point {x, y}.
Pt(px, py) == [x |-> px, y |-> py]

\* Outcome of a call that returned v.
Returned(v) == [threw |-> FALSE, val |-> v]

\* Outcome of a call that threw an Error.
Threw == [threw |-> TRUE, val |-> <<>>]

\* No call made yet.
NoRet == [threw |-> FALSE, val |-> <<>>]

(* --------------------------- corner utilities ------------------------- *)

\* pts.map((p) => p.x + p.y)
Sums(pts) == [i \in DOMAIN pts |-> pts[i].x + pts[i].y]

\* pts.map((p) => p.x - p.y)
Diffs(pts) == [i \in DOMAIN pts |-> pts[i].x - pts[i].y]

\* sums.indexOf(Math.min(...sums)): the point reported as top-left.
TlIdx(pts) == IndexOf(Sums(pts), MinOf(Range(Sums(pts))))

\* sums.indexOf(Math.max(...sums)): the point reported as bottom-right.
BrIdx(pts) == IndexOf(Sums(pts), MaxOf(Range(Sums(pts))))

\* Mutation of TrIdx: the smallest difference taken for the top-right corner.
TrIdxSmallestDiff(pts) == IndexOf(Diffs(pts), MinOf(Range(Diffs(pts))))

\* diffs.indexOf(Math.max(...diffs)): the point reported as top-right.
TrIdx(pts) == IndexOf(Diffs(pts), MaxOf(Range(Diffs(pts))))

\* Mutation of BlIdx: the largest difference instead of the smallest.
BlIdxLargestDiff(pts) == IndexOf(Diffs(pts), MaxOf(Range(Diffs(pts))))

\* diffs.indexOf(Math.min(...diffs)): the point reported as bottom-left.
BlIdx(pts) == IndexOf(Diffs(pts), MinOf(Range(Diffs(pts))))

\* The four extremes in the order [TL, TR, BR, BL].
ExtremeQuad(pts) == << pts[TlIdx(pts)], pts[TrIdx(pts)], pts[BrIdx(pts)], pts[BlIdx(pts)] >>

\* Mutation of sortPointsClockwise: bottom-right taken where top-left belongs.
sortPointsClockwiseSwapped(pts) ==
    IF Len(pts) # 4 THEN Threw
    ELSE Returned(<< pts[BrIdx(pts)], pts[TrIdx(pts)], pts[TlIdx(pts)], pts[BlIdx(pts)] >>)

\* sortPointsClockwise: throws unless exactly 4 points, else [TL, TR, BR, BL].
sortPointsClockwise(pts) ==
    IF Len(pts) # 4 THEN Threw
    ELSE Returned(ExtremeQuad(pts))

\* Mutation of getExtremeCorners: no shortcut for exactly 4 points.
getExtremeCornersNoShortcut(pts) ==
    IF Len(pts) < 4 THEN Threw
    ELSE Returned(ExtremeQuad(pts))

\* Mutation of getExtremeCorners: the length guard accepts 3 points.
getExtremeCornersLooseGuard(pts) ==
    IF Len(pts) = 4 THEN Returned(pts)
    ELSE IF Len(pts) < 3 THEN Threw
    ELSE Returned(ExtremeQuad(pts))

\* getExtremeCorners: 4 points are returned as they are, fewer throw, more are
\* reduced to the four extremes.
getExtremeCorners(pts) ==
    IF Len(pts) = 4 THEN Returned(pts)
    ELSE IF Len(pts) < 4 THEN Threw
    ELSE Returned(ExtremeQuad(pts))

(* -------------------- inputs of the corner utilities ------------------ *)

\* The points of the grid.
Grid == { Pt(i, j) : i \in 0..MaxCoord, j \in 0..MaxCoord }

\* Lists of n pairwise different grid points, in every order.
DistinctLists(n) ==
    { s \in [1..n -> Grid] : \A i, j \in 1..n : i # j => s[i] # s[j] }

\* Twice the signed area of the triangle p, q, r (image coordinates).
Cross(p, q, r) == (q.x - p.x) * (r.y - p.y) - (q.y - p.y) * (r.x - p.x)

\* (q - p) . (r - p)
Dot(p, q, r) == (q.x - p.x) * (r.x - p.x) + (q.y - p.y) * (r.y - p.y)

\* p -> q is an edge of the convex polygon with vertex set S: every other
\* vertex lies on one side of it, or on its line but not between p and q.
IsEdge(S, p, q) ==
    \A r \in S \ {p, q} :
        \/ Cross(p, q, r) > 0
        \/ /\ Cross(p, q, r) = 0
           /\ \/ Dot(p, q, r) < 0
              \/ Dot(p, q, r) > Dot(p, q, q)

\* The vertices of S are the vertices of a convex polygon of non-zero area.
ConvexPosition(S) ==
    /\ \E p, q, r \in S : Cross(p, q, r) # 0
    /\ \A p \in S : \E q \in S \ {p} : IsEdge(S, p, q)

\* The vertex that follows p on the boundary of the polygon.
NextVertex(S, p) == CHOOSE q \in S \ {p} : IsEdge(S, p, q)

RECURSIVE Walk(_, _, _)
\* The n vertices met from p on, walking the boundary.
Walk(S, p, n) == IF n = 0 THEN <<>> ELSE <<p>> \o Walk(S, NextVertex(S, p), n - 1)

\* s back to front.
Reverse(s) == [i \in 1..Len(s) |-> s[Len(s) + 1 - i]]

\* Vertex lists of convex polygons with n vertices, as a contour approximation
\* lists them: boundary order, either direction, any starting vertex.
ConvexPolygons(n) ==
    LET sets == { S \in SUBSET Grid : Cardinality(S) = n /\ ConvexPosition(S) }
        walks == UNION { { Walk(S, p, n) : p \in S } : S \in sets }
    IN  walks \cup { Reverse(w) : w \in walks }

\* The point lists the utilities are called with: any list of up to 4 different
\* points, and the vertex lists of convex polygons with more vertices.
IsPointList(pts) ==
    \/ \E n \in 0..4 : pts \in DistinctLists(n)
    \/ \E n \in 5..MaxPts : pts \in ConvexPolygons(n)

(* --------------------------- utility calls ---------------------------- *)

InitCorners ==
    /\ fn = "none"
    /\ IsPointList(arg)
    /\ ret = NoRet
    /\ ScanIdle
    /\ SaveIdle
    /\ UiIdle

\* sortPointsClockwise(arg) is called.
CallSortPointsClockwise ==
    /\ fn = "none"
    /\ fn' = "sortPointsClockwise"
    /\ ret' = sortPointsClockwise(arg)
    /\ UNCHANGED arg
    /\ UNCHANGED <<scanVars, saveVars, uiVars>>

\* getExtremeCorners(arg) is called.
CallGetExtremeCorners ==
    /\ fn = "none"
    /\ fn' = "getExtremeCorners"
    /\ ret' = getExtremeCorners(arg)
    /\ UNCHANGED arg
    /\ UNCHANGED <<scanVars, saveVars, uiVars>>

NextCorners == CallSortPointsClockwise \/ CallGetExtremeCorners

SpecCorners == InitCorners /\ [][NextCorners]_vars

(* ------------------ properties of the corner utilities ---------------- *)

\* The four corners of the axis-aligned bounding box of pts.
BoxCorners(pts) ==
    LET xs == { pts[i].x : i \in DOMAIN pts }
        ys == { pts[i].y : i \in DOMAIN pts }
    IN  { Pt(MinOf(xs), MinOf(ys)), Pt(MaxOf(xs), MinOf(ys)),
          Pt(MaxOf(xs), MaxOf(ys)), Pt(MinOf(xs), MaxOf(ys)) }

\* pts are the four corners of a non-degenerate axis-aligned rectangle, in some order.
IsRectangle(pts) ==
    /\ Len(pts) = 4
    /\ Range(pts) = BoxCorners(pts)
    /\ Cardinality(BoxCorners(pts)) = 4

\* The rectangle's corners in the order top-left, top-right, bottom-right, bottom-left.
RectangleClockwise(pts) ==
    LET xs == { pts[i].x : i \in DOMAIN pts }
        ys == { pts[i].y : i \in DOMAIN pts }
    IN  << Pt(MinOf(xs), MinOf(ys)), Pt(MaxOf(xs), MinOf(ys)),
           Pt(MaxOf(xs), MaxOf(ys)), Pt(MinOf(xs), MaxOf(ys)) >>

\* C6: for 4 distinct points sortPointsClockwise returns four of the input points,
\* the first with a coordinate sum no larger than any input point's and the third
\* with a coordinate sum no smaller than any input point's.
C6_TopLeftMinBottomRightMax ==
    (fn = "sortPointsClockwise" /\ Len(arg) = 4 /\ Cardinality(Range(arg)) = 4) =>
        /\ ~ret.threw
        /\ Len(ret.val) = 4
        /\ \A i \in 1..4 : ret.val[i] \in Range(arg)
        /\ \A p \in Range(arg) :
              /\ ret.val[1].x + ret.val[1].y <= p.x + p.y
              /\ ret.val[3].x + ret.val[3].y >= p.x + p.y

\* C6 witness: a quad whose coordinate sums tie has been sorted.
C6_Witness ==
    /\ fn = "sortPointsClockwise"
    /\ arg = << Pt(1, 2), Pt(2, 1), Pt(0, 1), Pt(1, 0) >>
    /\ ret.val[1] = Pt(0, 1)
    /\ ret.val[3] = Pt(1, 2)

\* C7: the corners of a non-degenerate axis-aligned rectangle, in any input order,
\* come back as (minX,minY), (maxX,minY), (maxX,maxY), (minX,maxY).
C7_RectangleSortedClockwise ==
    (fn = "sortPointsClockwise" /\ IsRectangle(arg)) =>
        ret = Returned(RectangleClockwise(arg))

\* C7 witness: the rectangle of the unit test (bottom-right first) has been sorted.
C7_Witness ==
    /\ fn = "sortPointsClockwise"
    /\ arg = << Pt(2, 2), Pt(0, 0), Pt(2, 0), Pt(0, 2) >>
    /\ ret.val = << Pt(0, 0), Pt(2, 0), Pt(2, 2), Pt(0, 2) >>

\* C8: getExtremeCorners on exactly 4 points returns those points, unchanged and
\* in input order.
C8_FourPointsUnchanged ==
    (fn = "getExtremeCorners" /\ Len(arg) = 4) =>
        /\ ~ret.threw
        /\ ret.val = arg

\* C8 witness: 4 points that are not in clockwise order came back as they were.
C8_Witness ==
    /\ fn = "getExtremeCorners"
    /\ arg = << Pt(2, 2), Pt(0, 0), Pt(2, 0), Pt(0, 2) >>
    /\ ret.val = arg

\* C9: getExtremeCorners on more than 4 points returns 4 different input vertices,
\* and exactly the corners of the bounding box when the input contains them.
C9_FourDifferentVertices ==
    (fn = "getExtremeCorners" /\ Len(arg) > 4) =>
        /\ ~ret.threw
        /\ Len(ret.val) = 4
        /\ Range(ret.val) \subseteq Range(arg)
        /\ Cardinality(Range(ret.val)) = 4
        /\ BoxCorners(arg) \subseteq Range(arg) => Range(ret.val) = BoxCorners(arg)

\* C10: getExtremeCorners throws on fewer than 4 points and sortPointsClockwise
\* throws on any number of points other than 4; neither returns a value then.
C10_MalformedInputThrows ==
    /\ (fn = "getExtremeCorners" /\ Len(arg) < 4) => ret = Threw
    /\ (fn = "sortPointsClockwise" /\ Len(arg) # 4) => ret = Threw

\* C10 witness: sortPointsClockwise was called with 5 points and threw.
C10_Witness ==
    /\ fn = "sortPointsClockwise"
    /\ Len(arg) = 5
    /\ ret.threw

(* --------------------------- confidence score ------------------------- *)

\* Fewest and most vertices of an accepted polygon (approx.rows >= 4 && <= 8).
MinVertices == 4
MaxVertices == 8

\* The starting score.
FullConfidence == 100

\* Penalty for a polygon of more than 4 vertices.
VertexPenalty == 10

\* Penalty for an aspect ratio outside [0.2, 5].
AspectPenalty == 25

\* solidity < 0.9, where solidity = rectArea > 0 ? area / rectArea : 0 and the
\* area is area2 / 2.
SolidityLow(area2, rectArea) ==
    IF rectArea > 0 THEN 10 * area2 < 18 * rectArea ELSE TRUE

\* The solidities for which the double (0.9 - solidity) * 100 lies just below the
\* integer it equals in exact arithmetic (0.68, 0.79, 0.8 and 0.81), so that
\* Math.floor yields one less.
RoundsBelow(area2, rectArea) ==
    rectArea > 0 /\ \E k \in {68, 79, 80, 81} : 100 * area2 = 2 * rectArea * k

\* Math.max(0, Math.floor((0.9 - solidity) * 100)) in double arithmetic.
SolidityPenalty(area2, rectArea) ==
    IF rectArea = 0 THEN 90
    ELSE LET exact == (180 * rectArea - 100 * area2) \div (2 * rectArea)
             floored == IF RoundsBelow(area2, rectArea) THEN exact - 1 ELSE exact
         IN  IF floored > 0 THEN floored ELSE 0

\* aspectRatio < 0.2 || aspectRatio > 5, where aspectRatio = height > 0 ?
\* width / height : 0.
AspectUnusual(width, height) ==
    IF height > 0 THEN 5 * width < height \/ width > 5 * height ELSE TRUE

\* Mutation of Clamp: the score is left as the penalties made it.
ClampMissing(c) == c

\* Math.max(0, Math.min(100, Math.round(c))) of an integer c.
Clamp(c) == IF c < 0 THEN 0 ELSE IF c > 100 THEN 100 ELSE c

\* The confidence of a candidate whose approximated polygon has `rows` vertices,
\* whose contour area is area2 / 2 and whose bounding rectangle is width x height.
Confidence(rows, area2, width, height) ==
    Clamp(FullConfidence
          - (IF rows > MinVertices THEN VertexPenalty ELSE 0)
          - (IF SolidityLow(area2, width * height)
                THEN SolidityPenalty(area2, width * height) ELSE 0)
          - (IF AspectUnusual(width, height) THEN AspectPenalty ELSE 0))

\* The scorer's inputs: vertex count, contour area, bounding rectangle.
InitScore ==
    /\ fn = "none"
    /\ arg \in [ rows : MinVertices..MaxVertices, area2 : 0..MaxArea2,
                 width : 0..MaxRectSide, height : 0..MaxRectSide ]
    /\ ret = NoRet
    /\ ScanIdle
    /\ SaveIdle
    /\ UiIdle

\* The confidence of the candidate is computed.
CallConfidence ==
    /\ fn = "none"
    /\ fn' = "confidence"
    /\ ret' = Returned(Confidence(arg.rows, arg.area2, arg.width, arg.height))
    /\ UNCHANGED arg
    /\ UNCHANGED <<scanVars, saveVars, uiVars>>

NextScore == CallConfidence

SpecScore == InitScore /\ [][NextScore]_vars

\* C3: the confidence is an integer in [0, 100] for every vertex count, solidity
\* (0 and above 1 included) and aspect ratio (0 included).
C3_ConfidenceInRange ==
    fn = "confidence" => ret.val \in 0..100

\* C3 witness: a 5-vertex candidate with an empty bounding rectangle (solidity 0,
\* aspect ratio 0), whose penalties add up to 125, scored 0.
C3_Witness ==
    /\ fn = "confidence"
    /\ arg.rows = 5
    /\ arg.width = 0
    /\ arg.area2 > 0
    /\ ret.val = 0

(* ------------------------- duplicate suppression ---------------------- *)

\* Candidates at or below this confidence are dropped (confidence > 40).
ConfidenceThreshold == 40

\* The axis-aligned bounding box of a quad.
BoundingBox(corners) ==
    [ minX |-> MinOf({ corners[i].x : i \in DOMAIN corners }),
      maxX |-> MaxOf({ corners[i].x : i \in DOMAIN corners }),
      minY |-> MinOf({ corners[i].y : i \in DOMAIN corners }),
      maxY |-> MaxOf({ corners[i].y : i \in DOMAIN corners }) ]

\* Mutation of Overlap: the difference is not floored at 0.
OverlapUnclamped(lo1, hi1, lo2, hi2) == MinOf({hi1, hi2}) - MaxOf({lo1, lo2})

\* Math.max(0, Math.min(hi1, hi2) - Math.max(lo1, lo2))
Overlap(lo1, hi1, lo2, hi2) ==
    LET d == MinOf({hi1, hi2}) - MaxOf({lo1, lo2}) IN IF d > 0 THEN d ELSE 0

\* Mutation of calculateIOU: the intersection is divided by the first box's
\* area, not by the union.
calculateIOUOverFirst(corners1, corners2) ==
    IF Len(corners1) # 4 \/ Len(corners2) # 4 THEN [num |-> 0, den |-> 1]
    ELSE LET box1 == BoundingBox(corners1)
             box2 == BoundingBox(corners2)
             interArea == Overlap(box1.minX, box1.maxX, box2.minX, box2.maxX)
                          * Overlap(box1.minY, box1.maxY, box2.minY, box2.maxY)
             area1 == (box1.maxX - box1.minX) * (box1.maxY - box1.minY)
         IN  IF area1 = 0 THEN [num |-> 0, den |-> 1]
             ELSE [num |-> interArea, den |-> area1]

\* calculateIOU: intersection over union of the two bounding boxes, as the
\* fraction num / den (0 when a quad has not 4 corners or the union is empty).
calculateIOU(corners1, corners2) ==
    IF Len(corners1) # 4 \/ Len(corners2) # 4 THEN [num |-> 0, den |-> 1]
    ELSE LET box1 == BoundingBox(corners1)
             box2 == BoundingBox(corners2)
             interArea == Overlap(box1.minX, box1.maxX, box2.minX, box2.maxX)
                          * Overlap(box1.minY, box1.maxY, box2.minY, box2.maxY)
             area1 == (box1.maxX - box1.minX) * (box1.maxY - box1.minY)
             area2 == (box2.maxX - box2.minX) * (box2.maxY - box2.minY)
             unionArea == area1 + area2 - interArea
         IN  IF unionArea = 0 THEN [num |-> 0, den |-> 1]
             ELSE [num |-> interArea, den |-> unionArea]

\* Mutation of AtLeast: iou > iouThreshold.
Above(iou, thr) == iou.num * thr.den > thr.num * iou.den

\* Mutation of AtLeast: any IOU, however small, counts as a duplicate.
AtLeastZero(iou, thr) == iou.num >= 0

\* iou >= iouThreshold, both fractions with positive denominators.
AtLeast(iou, thr) == iou.num * thr.den >= thr.num * iou.den

\* Array.prototype.sort with a comparator given as the set `before` of the pairs
\* <<i, j>> for which s[i] sorts before s[j]. The sort is stable, so elements that
\* compare equal keep their order.
StableSort(s, before) ==
    LET rank(i) == Cardinality({ j \in DOMAIN s :
                        \/ <<j, i>> \in before
                        \/ (<<i, j>> \notin before /\ j < i) })
    IN  [k \in 1..Len(s) |-> s[CHOOSE i \in DOMAIN s : rank(i) = k - 1]]

\* (a, b) => b.confidence - a.confidence is negative.
HigherConfidence(a, b) == a.confidence > b.confidence

\* Mutation of SortedByConfidence: the documents are left in input order.
SortedByConfidenceNot(docs) == docs

\* [...docs].sort((a, b) => b.confidence - a.confidence)
SortedByConfidence(docs) ==
    StableSort(docs, { ij \in (DOMAIN docs) \X (DOMAIN docs) :
                         HigherConfidence(docs[ij[1]], docs[ij[2]]) })

\* The ids marked as removed once doc is kept: every other document not yet
\* removed whose IOU with doc reaches the threshold.
Suppressed(sorted, doc, removed, thr) ==
    { sorted[j].id : j \in { j \in DOMAIN sorted :
          /\ sorted[j].id # doc.id
          /\ sorted[j].id \notin removed
          /\ AtLeast(calculateIOU(doc.corners, sorted[j].corners), thr) } }

RECURSIVE NmsLoop(_, _, _, _, _)
\* for (const doc of sorted), from position k on, with the documents kept and
\* the ids removed so far.
NmsLoop(sorted, k, kept, removed, thr) ==
    IF k > Len(sorted) THEN kept
    ELSE IF sorted[k].id \in removed
         THEN NmsLoop(sorted, k + 1, kept, removed, thr)
         ELSE NmsLoop(sorted, k + 1, Append(kept, sorted[k]),
                      removed \cup Suppressed(sorted, sorted[k], removed, thr), thr)

\* filterDuplicatesByIOU: non-maximum suppression over the documents' bounding boxes.
filterDuplicatesByIOU(docs, iouThreshold) ==
    IF Len(docs) <= 1 THEN docs
    ELSE NmsLoop(SortedByConfidence(docs), 1, <<>>, {}, iouThreshold)

\* The quads given to the filter: full-height rectangles over every x-interval of
\* the grid, corners in the order [TL, TR, BR, BL].
Strips ==
    LET intervals == { ab \in (0..MaxCoord) \X (0..MaxCoord) : ab[1] < ab[2] }
    IN  { << Pt(ab[1], 0), Pt(ab[2], 0), Pt(ab[2], MaxCoord), Pt(ab[1], MaxCoord) >> :
            ab \in intervals }

\* Confidences of kept candidates: with and without the vertex penalty.
KeptConfidences == { FullConfidence - VertexPenalty, FullConfidence }

\* IOU thresholds: 0, the default 0.5, and 1.
Thresholds == { [num |-> 0, den |-> 1], [num |-> 1, den |-> 2], [num |-> 1, den |-> 1] }

\* The id of the document made from contour i at time t with random suffix r:
\* `${Date.now()}-${i}-${Math.random().toString(36).substr(2, 9)}`.
DocId(t, i, r) == << t, i, r >>

\* Lists of n documents as scanDocument builds them: the k-th from contour k.
DocLists(n) ==
    { [k \in 1..n |-> [id |-> DocId(0, k, 0), confidence |-> cs[k], corners |-> qs[k]]] :
        cs \in [1..n -> KeptConfidences], qs \in [1..n -> Strips] }

InitNms ==
    /\ fn = "none"
    /\ \E n \in 0..MaxDocs : \E docs \in DocLists(n) : \E thr \in Thresholds :
          arg = [docs |-> docs, iouThreshold |-> thr]
    /\ ret = NoRet
    /\ ScanIdle
    /\ SaveIdle
    /\ UiIdle

\* filterDuplicatesByIOU(docs, iouThreshold) is called.
CallFilterDuplicatesByIOU ==
    /\ fn = "none"
    /\ fn' = "filterDuplicatesByIOU"
    /\ ret' = Returned(filterDuplicatesByIOU(arg.docs, arg.iouThreshold))
    /\ UNCHANGED arg
    /\ UNCHANGED <<scanVars, saveVars, uiVars>>

NextNms == CallFilterDuplicatesByIOU

SpecNms == InitNms /\ [][NextNms]_vars

\* C1: for every non-empty list and every threshold the filter keeps a document
\* whose confidence is the largest confidence of the input.
C1_HighestConfidenceKept ==
    (fn = "filterDuplicatesByIOU" /\ Len(arg.docs) > 0) =>
        \E k \in DOMAIN ret.val :
            /\ ret.val[k] \in Range(arg.docs)
            /\ \A j \in DOMAIN arg.docs : ret.val[k].confidence >= arg.docs[j].confidence

\* C1 witness: the highest-confidence document came last in the input, overlapped
\* the first one above the threshold, and is the one that was kept.
C1_Witness ==
    /\ fn = "filterDuplicatesByIOU"
    /\ Len(arg.docs) = 3
    /\ arg.iouThreshold = [num |-> 1, den |-> 2]
    /\ arg.docs[1].confidence < arg.docs[3].confidence
    /\ arg.docs[2].confidence < arg.docs[3].confidence
    /\ AtLeast(calculateIOU(arg.docs[1].corners, arg.docs[3].corners), arg.iouThreshold)
    /\ arg.docs[1] \notin Range(ret.val)
    /\ arg.docs[3] \in Range(ret.val)

(* ------------------------------ scanDocument -------------------------- *)

\* Longest side of the working image.
ProcessingSize == 800

\* The IOU threshold scanDocument filters with (0.5).
IouThreshold == [num |-> 1, den |-> 2]

\* Sizes of the loaded image: one that needs no downscaling (800 x 600) and one
\* that is downscaled by 1.5 (1200 x 900).
SourceSizes ==
    { [cols |-> ProcessingSize, rows |-> (3 * ProcessingSize) \div 4],
      [cols |-> (3 * ProcessingSize) \div 2, rows |-> (9 * ProcessingSize) \div 8] }

\* Mutation of ShouldRotate: the division is made without its guard, so that no
\* vertical edge gives an infinite ratio.
ShouldRotateUnguarded(horizontalEdges, verticalEdges) ==
    IF verticalEdges = 0
    THEN horizontalEdges > 0
    ELSE 2 * horizontalEdges > 3 * verticalEdges

\* autoRotateImage's decision: ratio > 1.5, where ratio = verticalEdges > 0 ?
\* horizontalEdges / verticalEdges : 1.
ShouldRotate(horizontalEdges, verticalEdges) ==
    verticalEdges > 0 /\ 2 * horizontalEdges > 3 * verticalEdges

\* The image a 90 degree rotation produces.
Rotated90(size) == [cols |-> size.rows, rows |-> size.cols]

\* scale = max(rows, cols) > processingSize ? max(rows, cols) / processingSize : 1
ScaleOf(size) ==
    LET longest == MaxOf({size.rows, size.cols})
    IN  IF longest > ProcessingSize THEN [num |-> longest, den |-> ProcessingSize]
        ELSE [num |-> 1, den |-> 1]

\* new cv.Size(Math.floor(cols / scale), Math.floor(rows / scale))
SmallSize(size, sc) ==
    [cols |-> (size.cols * sc.den) \div sc.num, rows |-> (size.rows * sc.den) \div sc.num]

\* Math.round(v * scale) for an integer v >= 0.
ScaleUp(v, sc) == (2 * v * sc.num + sc.den) \div (2 * sc.den)

\* bestCorners.map((p) => ({x: Math.round(p.x * scale), y: Math.round(p.y * scale)}))
CornersHighRes(corners, sc) ==
    [k \in DOMAIN corners |-> Pt(ScaleUp(corners[k].x, sc), ScaleUp(corners[k].y, sc))]

\* cv.isContourConvex: the polygon turns the same way at every vertex.
IsContourConvex(poly) ==
    LET n == Len(poly)
        turn(k) == Cross(poly[k], poly[(k % n) + 1], poly[((k + 1) % n) + 1])
    IN  \/ \A k \in 1..n : turn(k) >= 0
        \/ \A k \in 1..n : turn(k) <= 0

\* cv.boundingRect of integer points: the box of the pixels, both ends included.
BoundingRect(poly) ==
    LET box == BoundingBox(poly)
    IN  [width |-> box.maxX - box.minX + 1, height |-> box.maxY - box.minY + 1]

\* The rectangle [left, right] x [0, bottom] with its four corners cut off, an
\* octagon; with one more vertex between the two ends of the top-right cut when
\* `extra`, a polygon of 9 vertices. Both are convex.
Chamfered(left, right, bottom, extra) ==
    LET c == Cell \div 4
        cut == << Pt(right, bottom - c), Pt(right, c) >>
        rest == << Pt(right - c, 0), Pt(left + c, 0), Pt(left, c), Pt(left, bottom - c),
                   Pt(left + c, bottom), Pt(right - c, bottom) >>
    IN  IF extra THEN cut \o << Pt(right - c \div 5, c \div 5) >> \o rest
        ELSE cut \o rest

\* The polygons cv.approxPolyDP reports, in working-image pixels, for a shape
\* spanning the columns a..b of the grid over its full height: the rectangle, the
\* rectangle with one more vertex on its top edge, the rectangle with a dent in
\* its top edge (not convex), and a triangle. The vertices come in the order the
\* outline is traced, counter-clockwise from the bottom-right corner.
Polygon(shape, a, b) ==
    LET tl == Pt(a * Cell, 0)
        tr == Pt(b * Cell, 0)
        br == Pt(b * Cell, MaxCoord * Cell)
        bl == Pt(a * Cell, MaxCoord * Cell)
    IN  CASE shape = "quad" -> << br, tr, tl, bl >>
          [] shape = "pentagon" -> << br, tr, Pt(a * Cell + Cell \div 2, 0), tl, bl >>
          [] shape = "dented" -> << br, tr, Pt(a * Cell + Cell \div 2, Cell \div 2), tl, bl >>
          [] shape = "triangle" -> << br, tr, tl >>
          [] shape = "octagon" -> Chamfered(a * Cell, b * Cell, MaxCoord * Cell, FALSE)
          [] shape = "nonagon" -> Chamfered(a * Cell, b * Cell, MaxCoord * Cell, TRUE)

Shapes == {"quad", "pentagon", "dented", "triangle"}

\* cv.contourArea as a percentage of the polygon's box: a speck, a ragged
\* outline and a clean one.
AreaPercents == {1, 30, 100}

\* Twice the contour area, for a contour covering `percent` of the box of poly.
ContourArea2(poly, percent) ==
    LET box == BoundingBox(poly)
    IN  (2 * (box.maxX - box.minX) * (box.maxY - box.minY) * percent) \div 100

\* Date.now() while the documents of a scan are made.
ClockReadings == {0}

\* Math.random().toString(36).substr(2, 9)
RandomSuffixes == {0}

\* The OpenCV objects scanDocument may be given: none, one without Mat (not yet
\* initialised), a loaded one.
CvStates == {"missing", "noMat", "ready"}

\* Mutation of BackendReady: only !cv is checked.
BackendReadyWithoutMat(c) == c # "missing"

\* !(!cv || !cv.Mat)
BackendReady(c) == c # "missing" /\ c # "noMat"

\* A buffer (cv.Mat or cv.MatVector) by the name of the variable that holds it;
\* index is the contour it belongs to.
Buf(name, index) == << name, index >>

\* A buffer that does not belong to one contour.
ScanBuf(name) == Buf(name, -1)

\* Mutation of autoRotateImage: no try / catch, the primitive's exception leaves
\* the function.
autoRotateImageNoCatch(horizontalEdges, verticalEdges, throwsAt) ==
    IF throwsAt = "edges"
    THEN [threw |-> TRUE, rotated |-> FALSE, failed |-> TRUE,
          leaked |-> {ScanBuf("rotation.gray"), ScanBuf("rotation.edges")}]
    ELSE IF ShouldRotate(horizontalEdges, verticalEdges)
         THEN IF throwsAt = "rotate"
              THEN [threw |-> TRUE, rotated |-> FALSE, failed |-> TRUE,
                    leaked |-> {ScanBuf("rotated")}]
              ELSE [threw |-> FALSE, rotated |-> TRUE, failed |-> FALSE, leaked |-> {}]
         ELSE [threw |-> FALSE, rotated |-> FALSE, failed |-> FALSE, leaked |-> {}]

\* autoRotateImage(cv, src): gray and edges are allocated, the edges are counted
\* (throwsAt = "edges": cvtColor, Canny or ucharAt throws), gray and edges are
\* deleted, and when the ratio asks for it a rotated copy is allocated and filled
\* (throwsAt = "rotate": cv.rotate throws). The catch returns src. `leaked` are
\* the buffers allocated here that are neither deleted nor returned.
autoRotateImage(horizontalEdges, verticalEdges, throwsAt) ==
    IF throwsAt = "edges"
    THEN [threw |-> FALSE, rotated |-> FALSE, failed |-> TRUE,
          leaked |-> {ScanBuf("rotation.gray"), ScanBuf("rotation.edges")}]
    ELSE IF ShouldRotate(horizontalEdges, verticalEdges)
         THEN IF throwsAt = "rotate"
              THEN [threw |-> FALSE, rotated |-> FALSE, failed |-> TRUE,
                    leaked |-> {ScanBuf("rotated")}]
              ELSE [threw |-> FALSE, rotated |-> TRUE, failed |-> FALSE, leaked |-> {}]
         ELSE [threw |-> FALSE, rotated |-> FALSE, failed |-> FALSE, leaked |-> {}]

\* The buffers steps 1 to 4 allocate and push to matsToDelete.
SetupBuffers(rotated) ==
    { ScanBuf("src"), ScanBuf("small"), ScanBuf("gray"), ScanBuf("mean"),
      ScanBuf("stddev"), ScanBuf("contours"), ScanBuf("hierarchy") }
    \cup (IF rotated THEN {ScanBuf("finalSrc")} ELSE {})

\* warpPerspective(cv, processingSrc, sortedCorners): srcTri and dstTri are
\* allocated, then M (throwsAt = "transform": cv.getPerspectiveTransform throws),
\* then dst is allocated and filled (throwsAt = "warp": cv.warpPerspective
\* throws); srcTri, dstTri and M are deleted at the end and dst is returned.
warpPerspective(index, throwsAt) ==
    IF throwsAt = "transform"
    THEN [threw |-> TRUE, leaked |-> {Buf("srcTri", index), Buf("dstTri", index)}]
    ELSE IF throwsAt = "warp"
    THEN [threw |-> TRUE, leaked |-> {Buf("srcTri", index), Buf("dstTri", index),
                                      Buf("M", index), Buf("dst", index)}]
    ELSE [threw |-> FALSE, leaked |-> {}]

\* The stages of a scan, in the order scanDocument goes through them: the image
\* is read (Start), its rotation corrected (Oriented), it is downscaled and its
\* edges detected (Preprocessed), the contours are found (CandidatesFound), and
\* after the contour loop the duplicates are filtered (Deduplicated), the
\* documents sorted (Ordered) and the promise resolved (Done).
ScanStages ==
    << "Start", "Oriented", "Preprocessed", "CandidatesFound",
       "Deduplicated", "Ordered", "Done" >>

\* The stages completed once `stage` is.
StagesUpTo(stage) == SubSeq(ScanStages, 1, IndexOf(ScanStages, stage))

\* What follows the contour loop: filterDuplicatesByIOU, the final sort, resolve.
AfterLoopStages == << "Deduplicated", "Ordered", "Done" >>

\* Mutation of LoopFinished: the loop may be left before the last contour.
LoopFinishedEarly(i, size) == i <= size

\* The contour loop's condition i < contours.size() no longer holds.
LoopFinished(i, size) == ~(i < size)

\* area < minAreaThreshold, where minAreaThreshold = imageArea * 0.01 and the
\* area is area2 / 2.
BelowMinArea(area2, imageArea) == 50 * area2 < imageArea

\* Mutation of AcceptedPolygon: the polygon's convexity is not asked for.
AcceptedPolygonAnyShape(poly) ==
    Len(poly) >= MinVertices /\ Len(poly) <= MaxVertices

\* approx.rows >= 4 && approx.rows <= 8 && cv.isContourConvex(approx)
AcceptedPolygon(poly) ==
    Len(poly) >= MinVertices /\ Len(poly) <= MaxVertices /\ IsContourConvex(poly)

\* What a contour contributed: what became of it, its confidence when it was
\* kept or dropped for it (-1 otherwise), the document made of it, the buffers pushed to matsToDelete and the
\* buffers left allocated without being pushed.
Outcome(kind, confidence, doc, tracked, leaked, done) ==
    [kind |-> kind, confidence |-> confidence, doc |-> doc,
     tracked |-> tracked, leaked |-> leaked, stages |-> done]

NoDoc == <<>>

\* Mutation of Keep: a candidate at the threshold is kept too.
KeepAtThreshold(confidence) == confidence >= ConfidenceThreshold

\* confidence > 40
Keep(confidence) == confidence > ConfidenceThreshold

\* Mutation of AnalyseContour: no try / catch around the loop body, so that the
\* exception of a contour reaches the outer catch.
AnalyseContourNoCatch(index, isNull, throwsAt, poly, area2, t, r, sc, imageArea) ==
    IF isNull THEN Outcome("skipped", -1, NoDoc, {}, {}, <<>>)
    ELSE IF throwsAt = "analysis" THEN Outcome("fatal", -1, NoDoc, {}, {}, <<>>)
    ELSE IF BelowMinArea(area2, imageArea) THEN Outcome("skipped", -1, NoDoc, {}, {}, <<>>)
    ELSE IF ~AcceptedPolygon(poly)
         THEN Outcome("skipped", -1, NoDoc, {Buf("approx", index)}, {}, <<>>)
    ELSE LET bestCorners == getExtremeCorners(poly)
             rect == BoundingRect(poly)
             confidence == Confidence(Len(poly), area2, rect.width, rect.height)
             warped == warpPerspective(index, throwsAt)
             scored == << "Normalized", "Scored" >>
         IN  IF bestCorners.threw
             THEN Outcome("fatal", -1, NoDoc, {Buf("approx", index)}, {}, <<>>)
             ELSE IF ~Keep(confidence)
             THEN Outcome("dropped", confidence, NoDoc, {Buf("approx", index)}, {},
                          Append(scored, "Dropped"))
             ELSE LET sortedCorners ==
                          sortPointsClockwise(CornersHighRes(bestCorners.val, sc))
                  IN  IF sortedCorners.threw
                      THEN Outcome("fatal", -1, NoDoc, {Buf("approx", index)}, {}, scored)
                      ELSE IF warped.threw
                      THEN Outcome("fatal", -1, NoDoc, {Buf("approx", index)},
                                   warped.leaked, scored)
                      ELSE IF throwsAt = "encode"
                      THEN Outcome("fatal", -1, NoDoc,
                                   {Buf("approx", index), Buf("warpedMat", index)}, {},
                                   scored)
                      ELSE Outcome("warped", confidence,
                                   [id |-> DocId(t, index, r), confidence |-> confidence,
                                    corners |-> sortedCorners.val],
                                   {Buf("approx", index), Buf("warpedMat", index)}, {},
                                   Append(scored, "Warped"))

\* One iteration of the contour loop (steps 5 to 10) for contour `index`. The
\* contour cnt itself is deleted on every way through the body. throwsAt names
\* the primitive that throws: "analysis" (cv.contourArea), "transform" and "warp"
\* (inside warpPerspective), "encode" (cv.imshow, toDataURL or dataUrlToBlob).
AnalyseContour(index, isNull, throwsAt, poly, area2, t, r, sc, imageArea) ==
    IF isNull THEN Outcome("skipped", -1, NoDoc, {}, {}, <<>>)
    ELSE IF throwsAt = "analysis" THEN Outcome("error", -1, NoDoc, {}, {}, <<>>)
    ELSE IF BelowMinArea(area2, imageArea) THEN Outcome("skipped", -1, NoDoc, {}, {}, <<>>)
    ELSE IF ~AcceptedPolygon(poly)
         THEN Outcome("skipped", -1, NoDoc, {Buf("approx", index)}, {}, <<>>)
    ELSE LET bestCorners == getExtremeCorners(poly)
             rect == BoundingRect(poly)
             confidence == Confidence(Len(poly), area2, rect.width, rect.height)
             warped == warpPerspective(index, throwsAt)
             scored == << "Normalized", "Scored" >>
         IN  IF bestCorners.threw
             THEN Outcome("error", -1, NoDoc, {Buf("approx", index)}, {}, <<>>)
             ELSE IF ~Keep(confidence)
             THEN Outcome("dropped", confidence, NoDoc, {Buf("approx", index)}, {},
                          Append(scored, "Dropped"))
             ELSE LET sortedCorners ==
                          sortPointsClockwise(CornersHighRes(bestCorners.val, sc))
                  IN  IF sortedCorners.threw
                      THEN Outcome("error", -1, NoDoc, {Buf("approx", index)}, {}, scored)
                      ELSE IF warped.threw
                      THEN Outcome("error", -1, NoDoc, {Buf("approx", index)},
                                   warped.leaked, scored)
                      ELSE IF throwsAt = "encode"
                      THEN Outcome("error", -1, NoDoc,
                                   {Buf("approx", index), Buf("warpedMat", index)}, {},
                                   scored)
                      ELSE Outcome("warped", confidence,
                                   [id |-> DocId(t, index, r), confidence |-> confidence,
                                    corners |-> sortedCorners.val],
                                   {Buf("approx", index), Buf("warpedMat", index)}, {},
                                   Append(scored, "Warped"))

\* corners[0].y + corners[0].x
Position(doc) == doc.corners[1].y + doc.corners[1].x

\* Mutation of FinalOrder: the position tie-break is left out.
FinalOrderByConfidenceOnly(a, b) == a.confidence > b.confidence

\* The comparator of the final sort: confidence descending, then position ascending.
FinalOrder(a, b) ==
    \/ a.confidence > b.confidence
    \/ (a.confidence = b.confidence /\ Position(a) < Position(b))

\* filteredDocs.sort((a, b) => ...)
SortedForOutput(filteredDocs) ==
    StableSort(filteredDocs, { ij \in (DOMAIN filteredDocs) \X (DOMAIN filteredDocs) :
                                 FinalOrder(filteredDocs[ij[1]], filteredDocs[ij[2]]) })

\* reject(err) from the outer catch of img.onload: every buffer of matsToDelete
\* is deleted first.
RejectFromOnLoad(err, leaked) ==
    /\ pc' = "rejected"
    /\ error' = err
    /\ live' = (live \cup leaked) \ matsToDelete
    /\ matsToDelete' = {}

\* scanDocument(cv, imageSrcUrl) is called: it rejects at once when OpenCV is not
\* loaded, else it starts loading the image.
ScanDocument ==
    /\ pc = "idle"
    /\ pc' = IF BackendReady(cv) THEN "loading" ELSE "rejected"
    /\ error' = IF BackendReady(cv) THEN "none" ELSE "OpenCV is not loaded"
    /\ UNCHANGED <<scale, useRotated, small, nContours, contourIdx, foundDocs, trail, stages,
                   result, cv, src, rotation, live, matsToDelete>>
    /\ UNCHANGED <<utilVars, saveVars, uiVars>>

\* img.onerror: the promise rejects.
ImgOnError ==
    /\ pc = "loading"
    /\ pc' = "rejected"
    /\ error' = "Failed to load image source"
    /\ UNCHANGED <<scale, useRotated, small, nContours, contourIdx, foundDocs, trail, stages,
                   result, cv, src, rotation, live, matsToDelete>>
    /\ UNCHANGED <<utilVars, saveVars, uiVars>>

\* img.onload, when a step of 1 to 4 throws: cv.imread throws, or the image read
\* is empty, or a primitive after the rotation step throws (cv.resize and what
\* follows). The outer catch deletes the buffers of matsToDelete and rejects.
ImgOnLoadFails ==
    /\ pc = "loading"
    /\ \/ /\ \E err \in {"cv.imread", "Failed to load image into OpenCV"} :
                RejectFromOnLoad(err, {})
          /\ stages' = StagesUpTo("Start")
          /\ UNCHANGED <<src, rotation>>
       \/ \E size \in SourceSizes, h \in 0..MaxEdges, v \in 0..MaxEdges,
             rotationThrowsAt \in {"none", "edges", "rotate"} :
             LET r == autoRotateImage(h, v, rotationThrowsAt)
             IN  /\ src' = size
                 /\ rotation' = IF r.failed THEN "failed"
                               ELSE IF r.rotated THEN "rotated" ELSE "kept"
                 /\ stages' = StagesUpTo(IF r.threw THEN "Start" ELSE "Oriented")
                 /\ RejectFromOnLoad(IF r.threw THEN "autoRotateImage" ELSE "cv.resize",
                                     r.leaked)
    /\ UNCHANGED <<scale, useRotated, small, nContours, contourIdx, foundDocs, trail, result, cv>>
    /\ UNCHANGED <<utilVars, saveVars, uiVars>>

\* img.onload, steps 1 to 4: read the image, correct the rotation (the original is
\* used when autoRotateImage fails), downscale, detect edges, find the contours.
ImgOnLoad ==
    /\ pc = "loading"
    /\ \E size \in SourceSizes, h \in 0..MaxEdges, v \in 0..MaxEdges,
          rotationThrowsAt \in {"none", "edges", "rotate"}, n \in 0..MaxContours :
          LET r == autoRotateImage(h, v, rotationThrowsAt)
              processingSrc == IF r.rotated THEN Rotated90(size) ELSE size
          IN  /\ src' = size
              /\ rotation' = IF r.failed THEN "failed"
                            ELSE IF r.rotated THEN "rotated" ELSE "kept"
              /\ IF r.threw
                 THEN /\ RejectFromOnLoad("autoRotateImage", r.leaked)
                      /\ stages' = StagesUpTo("Start")
                      /\ UNCHANGED <<useRotated, scale, small, nContours>>
                 ELSE /\ useRotated' = r.rotated
                      /\ stages' = StagesUpTo("CandidatesFound")
                      /\ scale' = ScaleOf(processingSrc)
                      /\ small' = SmallSize(processingSrc, ScaleOf(processingSrc))
                      /\ nContours' = n
                      /\ live' = live \cup SetupBuffers(r.rotated) \cup r.leaked
                      /\ matsToDelete' = SetupBuffers(r.rotated)
                      /\ pc' = "contours"
                      /\ error' = "none"
    /\ contourIdx' = 0
    /\ foundDocs' = <<>>
    /\ trail' = <<>>
    /\ UNCHANGED <<result, cv>>
    /\ UNCHANGED <<utilVars, saveVars, uiVars>>

\* The contour loop moves on to the next contour, having recorded `out`; an
\* exception that leaves the loop body reaches the outer catch.
Recorded(out) ==
    /\ foundDocs' = IF out.kind = "warped" THEN Append(foundDocs, out.doc) ELSE foundDocs
    /\ trail' = Append(trail, [kind |-> out.kind, confidence |-> out.confidence,
                                stages |-> out.stages])
    /\ contourIdx' = contourIdx + 1
    /\ IF out.kind = "fatal"
       THEN /\ pc' = "rejected"
            /\ error' = "contour"
            /\ live' = live \ matsToDelete
            /\ matsToDelete' = {}
       ELSE /\ live' = live \cup out.tracked \cup out.leaked
            /\ matsToDelete' = matsToDelete \cup out.tracked
            /\ UNCHANGED <<pc, error>>
    /\ UNCHANGED <<scale, useRotated, small, nContours, stages, result, cv, src, rotation>>
    /\ UNCHANGED <<utilVars, saveVars, uiVars>>

\* An iteration of for (let i = 0; i < contours.size(); ++i) in which
\* contours.get(i) is empty, or a primitive throws before the score is computed.
ProcessContourWithoutPolygon ==
    /\ pc = "contours"
    /\ contourIdx < nContours
    /\ \E isNull \in BOOLEAN :
          Recorded(AnalyseContour(contourIdx, isNull, "analysis", <<>>, 0, 0, 0, scale,
                                  small.cols * small.rows))

\* An iteration of the loop for a contour with an area and an approximated
\* polygon, in which no primitive throws.
ProcessContour ==
    /\ pc = "contours"
    /\ contourIdx < nContours
    /\ \E shape \in Shapes, a \in 0..MaxCoord, b \in 0..MaxCoord, percent \in AreaPercents,
          t \in ClockReadings, r \in RandomSuffixes :
          /\ a < b
          /\ LET poly == Polygon(shape, a, b)
             IN  \E out \in { AnalyseContour(contourIdx, FALSE, "none", poly,
                                              ContourArea2(poly, percent), t, r, scale,
                                              small.cols * small.rows) } :
                     Recorded(out)

\* An iteration of the loop for a candidate that is kept, in which warping or
\* encoding the crop throws.
ProcessContourWarpFails ==
    /\ pc = "contours"
    /\ contourIdx < nContours
    /\ \E throwsAt \in {"transform", "warp", "encode"}, shape \in Shapes,
          a \in 0..MaxCoord, b \in 0..MaxCoord, percent \in AreaPercents,
          t \in ClockReadings, r \in RandomSuffixes :
          /\ a < b
          /\ LET poly == Polygon(shape, a, b)
                 area2 == ContourArea2(poly, percent)
                 imageArea == small.cols * small.rows
             IN  \E out \in { AnalyseContour(contourIdx, FALSE, throwsAt, poly, area2, t, r,
                                              scale, imageArea) } :
                     /\ out.tracked # {}
                     /\ out.kind = "error"
                     /\ Recorded(out)

\* Mutation of SettleAfterLoop: an empty list is reported as an error.
SettleRejectingEmpty(filteredDocs) ==
    IF filteredDocs = <<>>
    THEN [pc |-> "rejected", result |-> <<>>, error |-> "No documents found"]
    ELSE [pc |-> "resolved", result |-> filteredDocs, error |-> "none"]

\* resolve(filteredDocs): how the promise settles after the loop.
SettleAfterLoop(filteredDocs) ==
    [pc |-> "resolved", result |-> filteredDocs, error |-> "none"]

\* After the loop (steps 11 to 13): delete the buffers of matsToDelete, filter the
\* duplicates, sort, resolve.
Resolve ==
    /\ pc = "contours"
    /\ LoopFinished(contourIdx, nContours)
    /\ stages' = stages \o AfterLoopStages
    /\ live' = live \ matsToDelete
    /\ matsToDelete' = {}
    /\ \E settled \in { SettleAfterLoop(SortedForOutput(
                              filterDuplicatesByIOU(foundDocs, IouThreshold))) } :
          /\ result' = settled.result
          /\ pc' = settled.pc
          /\ error' = settled.error
    /\ UNCHANGED <<scale, useRotated, small, nContours, contourIdx, foundDocs, trail,
                   cv, src, rotation>>
    /\ UNCHANGED <<utilVars, saveVars, uiVars>>

Init ==
    /\ fn = "none"
    /\ arg = <<>>
    /\ ret = NoRet
    /\ ScanNotStarted
    /\ cv \in CvStates
    /\ SaveIdle
    /\ UiIdle

Next ==
    \/ ScanDocument
    \/ ImgOnError
    \/ ImgOnLoadFails
    \/ ImgOnLoad
    \/ ProcessContourWithoutPolygon
    \/ ProcessContour
    \/ ProcessContourWarpFails
    \/ Resolve

Spec == Init /\ [][Next]_vars

(* ------------------------ properties of a scan ------------------------ *)

\* The bounding boxes of the two documents have an IOU of 0.5 or more.
OverlapAtLeastHalf(d, e) ==
    LET iou == calculateIOU(d.corners, e.corners) IN 2 * iou.num >= iou.den

\* C2: no two different documents of the list scanDocument resolves with (the
\* list filterDuplicatesByIOU returned, sorted) have a bounding-box IOU of 0.5 or more.
C2_NoTwoKeptOverlap ==
    pc = "resolved" =>
        \A j, k \in DOMAIN result : j # k => ~OverlapAtLeastHalf(result[j], result[k])

\* C2 witness: two documents whose IOU is exactly 0.5 were found and one was kept.
C2_Witness ==
    /\ pc = "resolved"
    /\ Len(foundDocs) = 2
    /\ calculateIOU(foundDocs[1].corners, foundDocs[2].corners).num > 0
    /\ 2 * calculateIOU(foundDocs[1].corners, foundDocs[2].corners).num
          = calculateIOU(foundDocs[1].corners, foundDocs[2].corners).den
    /\ Len(result) = 1

C5_ResultSorted ==
    pc = "resolved" =>
        \A k \in 1..(Len(result) - 1) :
            \/ result[k].confidence > result[k + 1].confidence
            \/ /\ result[k].confidence = result[k + 1].confidence
               /\ result[k].corners[1].x + result[k].corners[1].y
                     <= result[k + 1].corners[1].x + result[k + 1].corners[1].y

\* C5 witness: two documents of equal confidence were found right one first and
\* resolved left one first.
C5_Witness ==
    /\ pc = "resolved"
    /\ Len(result) = 2
    /\ result[1].confidence = result[2].confidence
    /\ result[1].corners[1].x < result[2].corners[1].x
    /\ result[1] = foundDocs[2]
    /\ result[2] = foundDocs[1]

(* ------------------------------ calculateIOU -------------------------- *)

\* The quad [TL, TR, BR, BL] of the box [a, b] x [c, d]; a = b or c = d gives a
\* quad whose bounding box has no width or no height.
BoxQuad(a, b, c, d) == << Pt(a, c), Pt(b, c), Pt(b, d), Pt(a, d) >>

\* The quad through the middles of the sides of the box [a, b] x [c, d].
DiamondQuad(a, b, c, d) ==
    << Pt((a + b) \div 2, c), Pt(b, (c + d) \div 2),
       Pt((a + b) \div 2, d), Pt(a, (c + d) \div 2) >>

\* The quads given to calculateIOU: every box of the grid, flat ones included, and
\* the diamonds of the boxes with even sides.
Quads ==
    LET spans == { ab \in (0..MaxCoord) \X (0..MaxCoord) : ab[1] <= ab[2] }
        even == { ab \in spans : ab[1] < ab[2] /\ (ab[2] - ab[1]) % 2 = 0 }
    IN  { BoxQuad(h[1], h[2], v[1], v[2]) : h \in spans, v \in spans }
        \cup { DiamondQuad(h[1], h[2], v[1], v[2]) : h \in even, v \in even }

InitIou ==
    /\ fn = "none"
    /\ \E q1 \in Quads, q2 \in Quads : arg = [corners1 |-> q1, corners2 |-> q2]
    /\ ret = NoRet
    /\ ScanIdle
    /\ SaveIdle
    /\ UiIdle

\* calculateIOU(corners1, corners2) is called.
CallCalculateIOU ==
    /\ fn = "none"
    /\ fn' = "calculateIOU"
    /\ ret' = Returned(calculateIOU(arg.corners1, arg.corners2))
    /\ UNCHANGED arg
    /\ UNCHANGED <<scanVars, saveVars, uiVars>>

NextIou == CallCalculateIOU

SpecIou == InitIou /\ [][NextIou]_vars

\* C11: calculateIOU(A, A) = 1 for every quad A of 4 corners, the quads whose
\* bounding box has zero width or zero height included.
C11_SelfIouIsOne ==
    (fn = "calculateIOU" /\ arg.corners1 = arg.corners2) =>
        (ret.val.den > 0 /\ ret.val.num = ret.val.den)

\* C12: calculateIOU(A, B) = calculateIOU(B, A) for all quads A and B.
C12_IouSymmetric ==
    fn = "calculateIOU" =>
        LET swapped == calculateIOU(arg.corners2, arg.corners1)
        IN  ret.val.num * swapped.den = swapped.num * ret.val.den

\* C12 witness: two different quads that overlap in part, so that the IOU is
\* neither 0 nor 1 and the intersection is not the whole of either box.
C12_Witness ==
    /\ fn = "calculateIOU"
    /\ arg.corners1 = BoxQuad(0, MaxCoord, 0, MaxCoord)
    /\ arg.corners2 = BoxQuad(1, MaxCoord, 0, 1)
    /\ ret.val.num > 0
    /\ ret.val.num < ret.val.den

\* The bounding boxes of the quads share no area: they lie apart, or touch along
\* an edge or at a corner.
BoxesApart(q1, q2) ==
    LET xs1 == { q1[k].x : k \in DOMAIN q1 }
        ys1 == { q1[k].y : k \in DOMAIN q1 }
        xs2 == { q2[k].x : k \in DOMAIN q2 }
        ys2 == { q2[k].y : k \in DOMAIN q2 }
    IN  \/ \A u \in xs1, w \in xs2 : u <= w
        \/ \A u \in xs1, w \in xs2 : w <= u
        \/ \A u \in ys1, w \in ys2 : u <= w
        \/ \A u \in ys1, w \in ys2 : w <= u

\* C13: calculateIOU(A, B) = 0 for all quads whose bounding boxes are disjoint or
\* only touch along an edge or at a corner.
C13_DisjointIouIsZero ==
    (fn = "calculateIOU" /\ BoxesApart(arg.corners1, arg.corners2)) =>
        ret.val.num = 0

\* C13 witness: two boxes with area that lie apart in both directions, touching
\* at one corner.
C13_Witness ==
    /\ fn = "calculateIOU"
    /\ arg.corners1 = BoxQuad(0, 1, 0, 1)
    /\ arg.corners2 = BoxQuad(1, MaxCoord, 1, MaxCoord)
    /\ ret.val = [num |-> 0, den |-> 1 + (MaxCoord - 1) * (MaxCoord - 1)]

C15_ContourErrorIsolated ==
    /\ \A k \in DOMAIN trail :
          trail[k].kind \in {"skipped", "error", "dropped", "warped"}
    /\ (\E k \in DOMAIN trail : trail[k].kind = "error") => pc \in {"contours", "resolved"}
    /\ \A k \in DOMAIN trail :
          (trail[k].kind = "warped") <=> (\E j \in DOMAIN foundDocs : foundDocs[j].id[2] = k - 1)
    /\ Len(trail) = contourIdx
    /\ pc = "resolved" => Len(trail) = nContours

\* C15 witness: the warp of the first contour threw, the second contour was
\* warped, and the scan resolved with the second contour's document.
C15_Witness ==
    /\ pc = "resolved"
    /\ Len(trail) = 2
    /\ trail[1].kind = "error"
    /\ Buf("srcTri", 0) \in live
    /\ trail[2].kind = "warped"
    /\ Len(result) = 1
    /\ result[1].id[2] = 1

\* C16: when a primitive of autoRotateImage throws, the scan is not rejected for
\* it: the original image is used, unrotated, and preprocessing and detection
\* run on it.
C16_RotationFailureFallsBack ==
    /\ error # "autoRotateImage"
    /\ rotation = "failed" =>
          /\ ~useRotated
          /\ ScanBuf("finalSrc") \notin live
          /\ pc \in {"contours", "resolved"} =>
                /\ scale = ScaleOf(src)
                /\ small = SmallSize(src, ScaleOf(src))

\* C16 witness: a primitive of autoRotateImage threw on a 1200 x 900 image, and
\* the scan resolved with a document found on the unrotated, downscaled image.
C16_Witness ==
    /\ pc = "resolved"
    /\ rotation = "failed"
    /\ src.cols > src.rows
    /\ small.cols > small.rows
    /\ scale.num > scale.den
    /\ Len(result) = 1

\* C17: when the promise settles, every buffer allocated by the scan has been
\* deleted.
C17_AllBuffersReleased ==
    pc \in {"resolved", "rejected"} => live = {}

\* C18: when cv or cv.Mat is missing the scan rejects at once: the image is not
\* loaded, no buffer is allocated and no stage runs.
C18_BackendUnavailableRejectsFirst ==
    cv \in {"missing", "noMat"} =>
        /\ pc \in {"idle", "rejected"}
        /\ pc = "rejected" => error = "OpenCV is not loaded"
        /\ live = {}
        /\ matsToDelete = {}
        /\ src = [cols |-> 0, rows |-> 0]
        /\ rotation = "none"
        /\ trail = <<>>
        /\ foundDocs = <<>>

\* C18 witness: cv without Mat, and the scan rejected.
C18_Witness ==
    /\ cv = "noMat"
    /\ pc = "rejected"
    /\ error = "OpenCV is not loaded"

\* What the caller can see of a list of documents, ids apart: the confidences
\* and the corner quads, in order.
Observable(docs) ==
    [k \in DOMAIN docs |-> [confidence |-> docs[k].confidence, corners |-> docs[k].corners]]

\* The orders in which n contours can be processed.
Permutations(n) ==
    { f \in [1..n -> 1..n] : \A j, k \in 1..n : j # k => f[j] # f[k] }

\* C19: the list resolved with does not depend on the order in which the
\* contours were processed: the same documents found in any other order are
\* filtered and sorted to the same confidences and quads.
C19_OrderIndependent ==
    pc = "resolved" =>
        \A f \in Permutations(Len(foundDocs)) :
            Observable(SortedForOutput(filterDuplicatesByIOU(
                [k \in DOMAIN foundDocs |-> foundDocs[f[k]]], IouThreshold)))
                = Observable(result)

(* ------------------------------ document ids -------------------------- *)

\* The making of a document: the scan it belongs to, the index of its contour,
\* and what Date.now() and Math.random() returned for its id.
Makings ==
    [scan : 1..MaxScans, i : 0..(MaxContours - 1), t : 0..MaxClock, r : 0..MaxRandom]

InitIds ==
    /\ fn = "none"
    /\ \E first \in Makings, second \in Makings :
          /\ <<first.scan, first.i>> # <<second.scan, second.i>>
          /\ arg = << first, second >>
    /\ ret = NoRet
    /\ ScanIdle
    /\ SaveIdle
    /\ UiIdle

\* The ids of the two documents are made.
CallDocId ==
    /\ fn = "none"
    /\ fn' = "DocId"
    /\ ret' = Returned([k \in DOMAIN arg |-> DocId(arg[k].t, arg[k].i, arg[k].r)])
    /\ UNCHANGED arg
    /\ UNCHANGED <<scanVars, saveVars, uiVars>>

NextIds == CallDocId

SpecIds == InitIds /\ [][NextIds]_vars

\* C20: two different documents never get the same id, be they of the same scan
\* or of two scans running at the same time.
C20_IdsUnique ==
    fn = "DocId" => ret.val[1] # ret.val[2]

\* ---------------------------------------------------------------------------
\* autoRotateImage as a function of the two edge counts
\* ---------------------------------------------------------------------------

\* The largest number of edge pixels the sampling loop counts in one band.
MaxSampledEdges == 7

InitRotate ==
    /\ fn = "none"
    /\ arg \in [horizontalEdges : 0..MaxSampledEdges,
                verticalEdges : 0..MaxSampledEdges,
                throwsAt : {"none", "edges", "rotate"}]
    /\ ret = NoRet
    /\ ScanIdle
    /\ SaveIdle
    /\ UiIdle

CallAutoRotateImage ==
    /\ fn = "none"
    /\ fn' = "autoRotateImage"
    /\ ret' = Returned(autoRotateImage(arg.horizontalEdges, arg.verticalEdges,
                                       arg.throwsAt))
    /\ UNCHANGED arg
    /\ UNCHANGED <<scanVars, saveVars, uiVars>>

NextRotate == CallAutoRotateImage

SpecRotate == InitRotate /\ [][NextRotate]_vars

\* The ratio of the claim as a fraction: horizontal over vertical, and 1 when
\* there is no vertical edge.
EdgeRatio(h, v) == IF v = 0 THEN [num |-> 1, den |-> 1] ELSE [num |-> h, den |-> v]

ExactSolidityPenalty(area2, rectArea) ==
    IF rectArea = 0 THEN 90
    ELSE (180 * rectArea - 100 * area2) \div (2 * rectArea)

\* The score the formula of the claim gives.
FormulaConfidence(rows, area2, width, height) ==
    LET rectArea == width * height
        solidityLow == rectArea = 0 \/ 10 * area2 < 18 * rectArea
        aspectOut == height = 0 \/ 5 * width < height \/ width > 5 * height
        c == 100 - (IF rows > 4 THEN 10 ELSE 0)
                 - (IF solidityLow THEN ExactSolidityPenalty(area2, rectArea) ELSE 0)
                 - (IF aspectOut THEN 25 ELSE 0)
    IN  IF c < 0 THEN 0 ELSE IF c > 100 THEN 100 ELSE c

\* C24: the confidence is the value of the formula (100 less 10 for more than 4
\* vertices, less floor((0.9 - solidity) * 100) below solidity 0.9, less 25 for
\* an aspect ratio outside [0.2, 5], clamped to [0, 100]), and it does not rise
\* when the area, hence the solidity, shrinks in the same bounding rectangle.
C24_ConfidenceIsFormula ==
    fn = "confidence" =>
        /\ ret.val = FormulaConfidence(arg.rows, arg.area2, arg.width, arg.height)
        /\ \A less \in 0..arg.area2 :
              Confidence(arg.rows, less, arg.width, arg.height) <= ret.val

\* ---------------------------------------------------------------------------
\* Which extreme fills which corner role
\* ---------------------------------------------------------------------------

\* x - y of a point.
DiffOf(p) == p.x - p.y

\* x + y of a point.
SumOf(p) == p.x + p.y

C27_SortIsPermutation ==
    (fn = "sortPointsClockwise" /\ Len(arg) = 4 /\ Cardinality(Range(arg)) = 4) =>
        /\ ~ret.threw
        /\ Len(ret.val) = 4
        /\ Range(ret.val) = Range(arg)

\* ---------------------------------------------------------------------------
\* The adaptive Canny thresholds
\* ---------------------------------------------------------------------------

\* The largest mean of an 8-bit grayscale image.
MaxMean == 255

\* The largest standard deviation of an 8-bit grayscale image.
MaxStdDev == 128

\* Math.max(30, ...)
LowFloor == 30

\* Math.min(200, ...)
HighCeiling == 200

\* lowThreshold = Math.max(30, meanVal - stdVal)
lowThreshold(meanVal, stdVal) ==
    IF meanVal - stdVal > LowFloor THEN meanVal - stdVal ELSE LowFloor

\* highThreshold = Math.min(200, meanVal + stdVal * 2)
highThreshold(meanVal, stdVal) ==
    IF meanVal + stdVal * 2 < HighCeiling THEN meanVal + stdVal * 2 ELSE HighCeiling

\* The statistics cv.meanStdDev can measure on pixels in 0..MaxMean: the variance
\* is at most mean * (MaxMean - mean).
InitCanny ==
    /\ fn = "none"
    /\ \E meanVal \in 0..MaxMean, stdVal \in 0..MaxStdDev :
          /\ stdVal * stdVal <= meanVal * (MaxMean - meanVal)
          /\ arg = [meanVal |-> meanVal, stdVal |-> stdVal]
    /\ ret = NoRet
    /\ ScanIdle
    /\ SaveIdle
    /\ UiIdle

\* The two thresholds handed to cv.Canny are computed.
CallCannyThresholds ==
    /\ fn = "none"
    /\ fn' = "Canny"
    /\ ret' = Returned([low |-> lowThreshold(arg.meanVal, arg.stdVal),
                        high |-> highThreshold(arg.meanVal, arg.stdVal)])
    /\ UNCHANGED arg
    /\ UNCHANGED <<scanVars, saveVars, uiVars>>

NextCanny == CallCannyThresholds

SpecCanny == InitCanny /\ [][NextCanny]_vars

\* C28: the thresholds handed to Canny satisfy 30 <= low <= high <= 200.
C28_ThresholdsOrdered ==
    fn = "Canny" =>
        /\ 30 <= ret.val.low
        /\ ret.val.low <= ret.val.high
        /\ ret.val.high <= 200

\* ---------------------------------------------------------------------------
\* filterDuplicatesByIOU does not suppress too much
\* ---------------------------------------------------------------------------

\* The IOU of the bounding boxes of two documents reaches the threshold.
Duplicates(a, b, thr) ==
    LET iou == calculateIOU(a.corners, b.corners)
    IN  iou.num * thr.den >= thr.num * iou.den

GateShapes == Shapes \cup {"octagon", "nonagon"}

\* Working images: 800 x 600, and 800 x 750, of which the ragged outline of the
\* narrowest strip covers exactly 1%.
GateSizes ==
    { [cols |-> ProcessingSize, rows |-> (3 * ProcessingSize) \div 4],
      [cols |-> ProcessingSize, rows |-> (15 * ProcessingSize) \div 16] }

\* One contour of the loop: its polygon, its area, the working image, and the
\* primitive that throws once the candidate is accepted, if any.
InitGate ==
    /\ fn = "none"
    /\ \E shape \in GateShapes, a \in 0..MaxCoord, b \in 0..MaxCoord,
          percent \in AreaPercents, size \in GateSizes,
          throwsAt \in {"none", "transform", "warp", "encode"} :
          /\ a < b
          /\ arg = [poly |-> Polygon(shape, a, b),
                    area2 |-> ContourArea2(Polygon(shape, a, b), percent),
                    imageArea |-> size.cols * size.rows,
                    throwsAt |-> throwsAt]
    /\ ret = NoRet
    /\ ScanIdle
    /\ SaveIdle
    /\ UiIdle

\* The body of the contour loop runs for the contour.
CallAnalyseContour ==
    /\ fn = "none"
    /\ fn' = "AnalyseContour"
    /\ ret' = Returned(AnalyseContour(0, FALSE, arg.throwsAt, arg.poly, arg.area2, 0, 0,
                                      [num |-> 1, den |-> 1], arg.imageArea))
    /\ UNCHANGED arg
    /\ UNCHANGED <<scanVars, saveVars, uiVars>>

NextGate == CallAnalyseContour

SpecGate == InitGate /\ [][NextGate]_vars

\* Every corner of the polygon turns the same way.
TurnsOneWay(poly) ==
    LET n == Len(poly)
        at(k) == poly[((k - 1) % n) + 1]
        turn(k) == (at(k + 1).x - at(k).x) * (at(k + 2).y - at(k + 1).y)
                   - (at(k + 1).y - at(k).y) * (at(k + 2).x - at(k + 1).x)
    IN  (\A k \in 1..n : turn(k) >= 0) \/ (\A k \in 1..n : turn(k) <= 0)

\* The three conditions of the claim: an area of at least 1% of the image, 4 to 8
\* vertices, a convex polygon.
Eligible(poly, area2, imageArea) ==
    /\ 100 * area2 >= 2 * imageArea
    /\ Len(poly) \in 4..8
    /\ TurnsOneWay(poly)

\* C25: a contour is scored only if its area is at least 1% of the working image,
\* its polygon has 4 to 8 vertices and is convex; a contour that fails one of the
\* three conditions gives no document, raises no error and counts as skipped.
C25_OnlyEligibleScored ==
    fn = "AnalyseContour" =>
        LET out == ret.val
            eligible == Eligible(arg.poly, arg.area2, arg.imageArea)
        IN  /\ ("Scored" \in Range(out.stages) \/ out.confidence >= 0) => eligible
            /\ ~eligible =>
                  /\ out.kind = "skipped"
                  /\ out.doc = NoDoc
                  /\ out.stages = <<>>
                  /\ out.leaked = {}

\* C25 witness: a dented pentagon of full area was skipped for its shape alone.
C25_Witness ==
    /\ fn = "AnalyseContour"
    /\ Len(arg.poly) = 5
    /\ 100 * arg.area2 >= 2 * arg.imageArea
    /\ ~TurnsOneWay(arg.poly)
    /\ ret.val.kind = "skipped"

\* ---------------------------------------------------------------------------
\* The order of the stages
\* ---------------------------------------------------------------------------

\* The stages a candidate can have gone through.
CandidateStagesInOrder ==
    { <<>>, << "Normalized", "Scored" >>,
      << "Normalized", "Scored", "Warped" >>, << "Normalized", "Scored", "Dropped" >> }

DataImagePrefix == << "data:", "image/" >>

\* String.prototype.startsWith
StartsWith(str, prefix) ==
    Len(str) >= Len(prefix) /\ SubSeq(str, 1, Len(prefix)) = prefix

\* The data URLs handed in: the empty string, image data URLs, the bare prefix,
\* a data URL of another type, a cut-off data URL and an https URL.
DataUrls ==
    { <<>>,
      << "data:", "image/", "jpeg;base64,AAAA" >>,
      << "data:", "image/", "png;base64,BBBB" >>,
      << "data:", "image/" >>,
      << "data:", "text/", "plain;base64,AAAA" >>,
      << "data:" >>,
      << "https:", "//example.com/a.jpg" >> }

UserIds == { "", "user1" }

\* A confidence left out.
Undefined == [kind |-> "undefined", val |-> 0]

\* The number NaN.
NaN == [kind |-> "NaN", val |-> 0]

\* An ordinary number.
Num(v) == [kind |-> "number", val |-> v]

\* The confidences handed in: none, NaN, and numbers around the two ends of the
\* range.
SaveConfidences == { Undefined, NaN } \cup { Num(v) : v \in {-1, 0, 55, 100, 101} }

\* a < b on numbers: false when a is NaN.
LessThan(a, b) == a.kind = "number" /\ a.val < b

\* a > b on numbers: false when a is NaN.
GreaterThan(a, b) == a.kind = "number" /\ a.val > b

\* Steps 1 to 3 of saveScanToFirestore: the message of the error thrown, or "ok".
Validation(userId, processedDataUrl, originalDataUrl, confidence) ==
    IF userId = "" THEN "User ID is required"
    ELSE IF processedDataUrl = <<>> THEN "Processed image data is required"
    ELSE IF originalDataUrl = <<>> THEN "Original image data is required"
    ELSE IF ~StartsWith(processedDataUrl, DataImagePrefix)
    THEN "Invalid processed image format: must be a valid image data URL"
    ELSE IF ~StartsWith(originalDataUrl, DataImagePrefix)
    THEN "Invalid original image format: must be a valid image data URL"
    ELSE IF confidence # Undefined
            /\ (LessThan(confidence, 0) \/ GreaterThan(confidence, 100))
    THEN "Confidence score must be between 0 and 100"
    ELSE "ok"

\* throw new Error(`Failed to save document: ${message}`) from the catch.
SaveFailed(message) == [threw |-> TRUE, val |-> << "Failed to save document: ", message >>]

InitSave ==
    /\ fn = "none"
    /\ arg \in [userId : UserIds, processedDataUrl : DataUrls,
                originalDataUrl : DataUrls, confidence : SaveConfidences]
    /\ ret = NoRet
    /\ ScanIdle
    /\ SaveIdle
    /\ UiIdle

\* saveScanToFirestore(userId, processedDataUrl, originalDataUrl, confidence) is
\* called and runs up to its first await: it validates, and either throws or
\* starts the two uploads.
CallSaveScanToFirestore ==
    /\ fn = "none"
    /\ fn' = "saveScanToFirestore"
    /\ \E v \in { Validation(arg.userId, arg.processedDataUrl, arg.originalDataUrl,
                             arg.confidence) } :
          IF v = "ok"
          THEN /\ savePc' = "uploading"
               /\ pendingUploads' = {"original", "processed"}
               /\ ret' = ret
          ELSE /\ savePc' = "rejected"
               /\ pendingUploads' = {}
               /\ ret' = SaveFailed(v)
    /\ UNCHANGED <<arg, storage, scans>>
    /\ UNCHANGED <<scanVars, uiVars>>

\* The object uploadImageToCloudStorage writes for one of the two images.
StoredObject(fileType) ==
    [fileType |-> fileType, userId |-> arg.userId,
     data |-> IF fileType = "original" THEN arg.originalDataUrl ELSE arg.processedDataUrl]

\* One upload settles. uploadString may fail (nothing is written), or
\* getDownloadURL after it (the object is written); either way Promise.all
\* rejects, the other upload goes on.
UploadSettles ==
    /\ \E fileType \in pendingUploads, written \in BOOLEAN, failed \in BOOLEAN :
          /\ ~written => failed
          /\ pendingUploads' = pendingUploads \ {fileType}
          /\ storage' = IF written THEN storage \cup {StoredObject(fileType)} ELSE storage
          /\ IF failed /\ savePc = "uploading"
             THEN /\ savePc' = "rejected"
                  /\ ret' = SaveFailed(<< "Failed to upload ", fileType >>)
             ELSE UNCHANGED <<savePc, ret>>
    /\ UNCHANGED <<fn, arg, scans>>
    /\ UNCHANGED <<scanVars, uiVars>>

\* Both uploads are done: addDoc writes the document, or fails.
AddDoc ==
    /\ savePc = "uploading"
    /\ pendingUploads = {}
    /\ \E failed \in BOOLEAN :
          IF failed
          THEN /\ savePc' = "rejected"
               /\ ret' = SaveFailed(<< "addDoc" >>)
               /\ scans' = scans
          ELSE /\ savePc' = "resolved"
               /\ ret' = Returned(TRUE)
               /\ scans' = scans \cup
                     {[userId |-> arg.userId,
                       originalUrl |-> StoredObject("original"),
                       processedUrl |-> StoredObject("processed"),
                       confidence |-> IF arg.confidence = Undefined THEN "null"
                                      ELSE arg.confidence]}
    /\ UNCHANGED <<fn, arg, pendingUploads, storage>>
    /\ UNCHANGED <<scanVars, uiVars>>

NextSave == CallSaveScanToFirestore \/ UploadSettles \/ AddDoc

SpecSave == InitSave /\ [][NextSave]_vars

\* The arguments fail the validation of the claim: an empty userId or URL, a URL
\* that does not start with 'data:image/', or a confidence that is given and is
\* not in [0, 100].
FailsValidation(a) ==
    \/ a.userId = ""
    \/ a.processedDataUrl = <<>>
    \/ a.originalDataUrl = <<>>
    \/ ~StartsWith(a.processedDataUrl, DataImagePrefix)
    \/ ~StartsWith(a.originalDataUrl, DataImagePrefix)
    \/ /\ a.confidence # Undefined
       /\ ~(a.confidence.kind = "number" /\ a.confidence.val \in 0..100)

MaxFiles == 2

Files == 1..MaxFiles

\* What scanDocument resolves with for the image read from file f: no document,
\* or a document cut from that image.
ScanResults(f) == { <<>>, << [source |-> f] >> }

InitUi ==
    /\ fn = "none"
    /\ arg = <<>>
    /\ ret = NoRet
    /\ ScanIdle
    /\ SaveIdle
    /\ UiIdle

\* handleFileUpload or handleDrop: processFile(file) starts reading the file.
ProcessFile ==
    /\ \E f \in Files \ reading : reading' = reading \cup {f}
    /\ UNCHANGED <<imageSrc, scannedDocs, isProcessing, scanning, saved>>
    /\ UNCHANGED <<utilVars, scanVars, saveVars>>

\* processFile goes on after its await: the file was read, and the image and
\* an empty list of documents are set; or reading failed, and the user is told.
FileRead ==
    /\ \E f \in reading, ok \in BOOLEAN :
          /\ reading' = reading \ {f}
          /\ IF ok
             THEN /\ imageSrc' = f
                  /\ scannedDocs' = <<>>
             ELSE UNCHANGED <<imageSrc, scannedDocs>>
    /\ UNCHANGED <<isProcessing, scanning, saved>>
    /\ UNCHANGED <<utilVars, scanVars, saveVars>>

\* The scan button is clicked (it is disabled without an image, before OpenCV is
\* loaded and while a scan is in progress): handleScan runs up to its await.
HandleScan ==
    /\ imageSrc # 0
    /\ BackendReady(cv)
    /\ ~isProcessing
    /\ isProcessing' = TRUE
    /\ scannedDocs' = <<>>
    /\ scanning' = scanning \cup {imageSrc}
    /\ UNCHANGED <<imageSrc, reading, saved>>
    /\ UNCHANGED <<utilVars, scanVars, saveVars>>

\* handleScan goes on after its await: scanDocument resolved with documents,
\* which are displayed, or with none, or rejected (the user is told); finally the
\* flag is reset.
ScanSettles ==
    /\ \E f \in scanning, rejected \in BOOLEAN : \E docs \in ScanResults(f) :
          /\ scanning' = scanning \ {f}
          /\ scannedDocs' = IF ~rejected /\ Len(docs) > 0 THEN docs ELSE scannedDocs
    /\ isProcessing' = FALSE
    /\ UNCHANGED <<imageSrc, reading, saved>>
    /\ UNCHANGED <<utilVars, scanVars, saveVars>>

\* handleSave(doc) for a displayed document, the user being logged in:
\* saveScanToFirestore(user.uid, doc.dataUrl, imageSrc, doc.confidence).
HandleSave ==
    /\ imageSrc # 0
    /\ \E k \in DOMAIN scannedDocs :
          saved' = saved \cup {[processed |-> scannedDocs[k].source, original |-> imageSrc]}
    /\ UNCHANGED <<imageSrc, scannedDocs, isProcessing, reading, scanning>>
    /\ UNCHANGED <<utilVars, scanVars, saveVars>>

NextUi == ProcessFile \/ FileRead \/ HandleScan \/ ScanSettles \/ HandleSave

SpecUi == InitUi /\ [][NextUi]_vars

\* C29: the documents displayed were all cut from the image the component holds,
\* and no crop is saved together with an original it was not cut from.
C29_DocsBelongToImage ==
    /\ \A k \in DOMAIN scannedDocs : scannedDocs[k].source = imageSrc
    /\ \A s \in saved : s.processed = s.original

====
